---- MODULE Spec2Model ----
(***************************************************************************)
(* rmcp-xdotool (src/src/main.rs): an MCP server whose twelve tool         *)
(* handlers each translate one call into one invocation of the external    *)
(* `xdotool` utility and shape the utility's outcome into a                *)
(* Result<CallToolResult, McpError>.                                       *)
(*                                                                         *)
(* Representation.  A Rust String is a TLA+ string; a character is a       *)
(* string of length 1.  A raw byte stream (stdout, stderr) is a tuple of   *)
(* bytes, each byte written as the one-character string of the ASCII       *)
(* character it encodes, or as the string "0xFF" for a byte that is not    *)
(* valid UTF-8.  Integers are TLC integers, whose range is that of i32.    *)
(***************************************************************************)
EXTENDS Integers, Sequences, FiniteSets, TLC

\* ------------------------------------------------------------ bounds
\* Number of call slots the transport may have in flight at once.
MaxCalls == 2
\* Longest generated stdout, in lines.
MaxLines == 2

\* ------------------------------------------------------------ std: strings

\* The bytes of an ASCII string (the encoding the utility writes).
Raw(s) == [i \in 1..Len(s) |-> SubSeq(s, i, i)]

\* A byte that can appear in no UTF-8 encoding.
InvalidByte == "0xFF"

\* U+FFFD REPLACEMENT CHARACTER, written as one character of the model.
REPLACEMENT_CHARACTER == "?"

\* String::from_utf8_lossy: valid bytes decode to their characters, an
\* invalid byte decodes to U+FFFD.
RECURSIVE from_utf8_lossy(_)
from_utf8_lossy(bytes) ==
    IF Len(bytes) = 0 THEN ""
    ELSE (IF Head(bytes) = InvalidByte THEN REPLACEMENT_CHARACTER ELSE Head(bytes))
         \o from_utf8_lossy(Tail(bytes))

UpperCase == "ABCDEFGHIJKLMNOPQRSTUVWXYZ"
LowerCase == "abcdefghijklmnopqrstuvwxyz"

\* Position of character ch in string s, 0 when absent.
IndexOf(ch, s) ==
    LET hits == {i \in 1..Len(s) : SubSeq(s, i, i) = ch}
    IN  IF hits = {} THEN 0 ELSE CHOOSE i \in hits : \A j \in hits : i <= j

\* char::to_lowercase on the ASCII range.
char_to_lowercase(ch) ==
    LET i == IndexOf(ch, UpperCase)
    IN  IF i = 0 THEN ch ELSE SubSeq(LowerCase, i, i)

\* str::to_lowercase.
RECURSIVE to_lowercase(_)
to_lowercase(s) ==
    IF Len(s) = 0 THEN ""
    ELSE char_to_lowercase(SubSeq(s, 1, 1)) \o to_lowercase(SubSeq(s, 2, Len(s)))

\* str::starts_with.
starts_with(s, prefix) ==
    Len(s) >= Len(prefix) /\ SubSeq(s, 1, Len(prefix)) = prefix

\* The slice s[n..] (n is a byte offset; the model's characters are ASCII).
SliceFrom(s, n) == SubSeq(s, n + 1, Len(s))

\* char::is_whitespace for the characters of the model.
is_whitespace(ch) == ch \in {" ", "\n", "\t", "\r"}

RECURSIVE trim_start(_)
trim_start(s) ==
    IF Len(s) > 0 /\ is_whitespace(SubSeq(s, 1, 1))
    THEN trim_start(SubSeq(s, 2, Len(s))) ELSE s

RECURSIVE trim_end(_)
trim_end(s) ==
    IF Len(s) > 0 /\ is_whitespace(SubSeq(s, Len(s), Len(s)))
    THEN trim_end(SubSeq(s, 1, Len(s) - 1)) ELSE s

\* str::trim.
trim(s) == trim_end(trim_start(s))

\* One line of str::lines with its terminator removed: "\n", or "\r\n".
StripCR(l) ==
    IF Len(l) > 0 /\ SubSeq(l, Len(l), Len(l)) = "\r"
    THEN SubSeq(l, 1, Len(l) - 1) ELSE l

\* str::lines: split at "\n" (or "\r\n"); the final line ending is optional
\* and an empty string has no lines.
RECURSIVE lines(_)
lines(s) ==
    IF Len(s) = 0 THEN << >>
    ELSE LET nl == IndexOf("\n", s)
         IN  IF nl = 0 THEN << s >>
             ELSE << StripCR(SubSeq(s, 1, nl - 1)) >> \o lines(SubSeq(s, nl + 1, Len(s)))

\* ------------------------------------------------------------ std: integers

Digits == "0123456789"

I32_MAX == 2147483647
I32_MIN == -2147483647 - 1
U8_MAX == 255

\* Decimal text of a natural number.
RECURSIVE nat_to_string(_)
nat_to_string(n) ==
    IF n < 10 THEN SubSeq(Digits, n + 1, n + 1)
    ELSE nat_to_string(n \div 10) \o SubSeq(Digits, (n % 10) + 1, (n % 10) + 1)

\* ToString for i32, u8 and u32 (Display): decimal, "-" before a negative.
to_string(n) ==
    IF n >= 0 THEN nat_to_string(n)
    ELSE LET d == (10 - (n % 10)) % 10
             rest == -((n + d) \div 10)
         IN  "-" \o (IF rest = 0 THEN "" ELSE nat_to_string(rest))
                 \o SubSeq(Digits, d + 1, d + 1)

\* Result of str::parse::<i32>: Ok(v) or Err.
ParseOk(v) == [ok |-> TRUE, v |-> v]
ParseErr == [ok |-> FALSE, v |-> 0]

\* Accumulate decimal digits into a non-positive number (as core::num does for
\* a negative literal) or a non-negative one, failing on a non-digit and on
\* overflow of i32.
RECURSIVE parse_digits(_, _, _)
parse_digits(s, acc, negative) ==
    IF Len(s) = 0 THEN ParseOk(acc)
    ELSE LET d == IndexOf(SubSeq(s, 1, 1), Digits) - 1
         IN  IF d < 0 THEN ParseErr
             ELSE IF negative
                  THEN IF acc < (I32_MIN + d) \div 10 + (IF (I32_MIN + d) % 10 = 0 THEN 0 ELSE 1)
                       THEN ParseErr
                       ELSE parse_digits(SubSeq(s, 2, Len(s)), acc * 10 - d, negative)
                  ELSE IF acc > (I32_MAX - d) \div 10
                       THEN ParseErr
                       ELSE parse_digits(SubSeq(s, 2, Len(s)), acc * 10 + d, negative)

\* str::parse::<i32>: an optional "+" or "-", then one or more decimal
\* digits, nothing else; a value outside i32 is an error.
parse_i32(s) ==
    IF Len(s) = 0 THEN ParseErr
    ELSE LET sign == SubSeq(s, 1, 1)
             body == IF sign \in {"+", "-"} THEN SubSeq(s, 2, Len(s)) ELSE s
         IN  IF Len(body) = 0 THEN ParseErr
             ELSE parse_digits(body, 0, sign = "-")

\* Result::unwrap_or.
unwrap_or(r, default) == IF r.ok THEN r.v ELSE default

\* ------------------------------------------------------------ results

\* Ok(CallToolResult::success(vec![Content::text(text)])).
success(text) == [tag |-> "Ok", code |-> "", text |-> text]

\* Err(McpError::internal_error(message, None)).
internal_error(message) == [tag |-> "Err", code |-> "internal_error", text |-> message]

\* Err(McpError::invalid_params(..)): what the Parameters<T> extractor of the
\* tool router answers when the call's arguments do not deserialize into T.
invalid_params(message) == [tag |-> "Err", code |-> "invalid_params", text |-> message]

\* No result yet.
NoResult == [tag |-> "None", code |-> "", text |-> ""]

\* A faulty launch_error: the message of a non-zero exit.
launch_error_as_exit(e) == internal_error("xdotool error: " \o e)

\* The closure of every handler's .map_err(..) on Command::output().
launch_error(e) == internal_error("Failed to run xdotool: " \o e)

\* A faulty xdotool_error: the text trimmed, as the handlers trim stdout.
xdotool_error_trimmed(stderr) ==
    internal_error("xdotool error: " \o trim(from_utf8_lossy(stderr)))

\* The else branch of every handler but search_window: a non-zero exit.
xdotool_error(stderr) == internal_error("xdotool error: " \o from_utf8_lossy(stderr))

\* ------------------------------------------------------------ parameters

default_button == 1
default_delay == 12
default_clicks == 3
default_search_type == "any"

DeOk(v) == [ok |-> TRUE, v |-> v]
DeErr == [ok |-> FALSE, v |-> 0]

\* A required integer field of type lo..hi (serde: a missing field and a
\* number outside the type are errors).
de_int(args, f, lo, hi) ==
    IF f \notin DOMAIN args THEN DeErr
    ELSE IF args[f] < lo \/ args[f] > hi THEN DeErr
    ELSE DeOk(args[f])

\* An integer field with #[serde(default = ..)].
de_int_default(args, f, lo, hi, default) ==
    IF f \notin DOMAIN args THEN DeOk(default) ELSE de_int(args, f, lo, hi)

\* A required String field.
de_string(args, f) == IF f \notin DOMAIN args THEN DeErr ELSE DeOk(args[f])

\* A String field with #[serde(default = ..)].
de_string_default(args, f, default) ==
    IF f \notin DOMAIN args THEN DeOk(default) ELSE DeOk(args[f])

de_i32(args, f) == de_int(args, f, I32_MIN, I32_MAX)
\* u8: 0..=255.
de_u8(args, f, default) == de_int_default(args, f, 0, U8_MAX, default)
\* u32: 0..=4294967295; every integer of the model is at most I32_MAX.
de_u32(args, f, default) == de_int_default(args, f, 0, I32_MAX, default)

NoParams == [none |-> TRUE]

MoveMouseParams(args) ==
    LET x == de_i32(args, "x")  y == de_i32(args, "y")
    IN  IF x.ok /\ y.ok THEN DeOk([x |-> x.v, y |-> y.v]) ELSE DeErr

ClickParams(args) ==
    LET button == de_u8(args, "button", default_button)
    IN  IF button.ok THEN DeOk([button |-> button.v]) ELSE DeErr

ClickAtParams(args) ==
    LET x == de_i32(args, "x")  y == de_i32(args, "y")
        button == de_u8(args, "button", default_button)
    IN  IF x.ok /\ y.ok /\ button.ok
        THEN DeOk([x |-> x.v, y |-> y.v, button |-> button.v]) ELSE DeErr

TypeTextParams(args) ==
    LET text == de_string(args, "text")
        delay == de_u32(args, "delay", default_delay)
    IN  IF text.ok /\ delay.ok THEN DeOk([text |-> text.v, delay |-> delay.v]) ELSE DeErr

KeyPressParams(args) ==
    LET key == de_string(args, "key")
    IN  IF key.ok THEN DeOk([key |-> key.v]) ELSE DeErr

ScrollParams(args) ==
    LET direction == de_string(args, "direction")
        clicks == de_u32(args, "clicks", default_clicks)
    IN  IF direction.ok /\ clicks.ok
        THEN DeOk([direction |-> direction.v, clicks |-> clicks.v]) ELSE DeErr

SearchWindowParams(args) ==
    LET query == de_string(args, "query")
        search_type == de_string_default(args, "search_type", default_search_type)
    IN  IF query.ok THEN DeOk([query |-> query.v, search_type |-> search_type.v]) ELSE DeErr

WindowIdParams(args) ==
    LET window_id == de_string(args, "window_id")
    IN  IF window_id.ok THEN DeOk([window_id |-> window_id.v]) ELSE DeErr

\* The tools the #[tool_router] registers.
Tools ==
    {"move_mouse", "click", "click_at", "type_text", "key_press", "scroll",
     "get_mouse_position", "double_click", "search_window", "get_active_window",
     "get_window_geometry", "get_window_name"}

\* Parameters(params): Parameters<T> of each handler's signature.
Deserialize(op, args) ==
    CASE op = "move_mouse" -> MoveMouseParams(args)
      [] op = "click" -> ClickParams(args)
      [] op = "click_at" -> ClickAtParams(args)
      [] op = "type_text" -> TypeTextParams(args)
      [] op = "key_press" -> KeyPressParams(args)
      [] op = "scroll" -> ScrollParams(args)
      [] op = "search_window" -> SearchWindowParams(args)
      [] op \in {"get_window_geometry", "get_window_name"} -> WindowIdParams(args)
      [] OTHER -> DeOk(NoParams)

\* ------------------------------------------------------------ handlers
\* Each handler is two operators: X_args(params), the argument vector it hands
\* to Command::new("xdotool").args(..), and X(params, output), the value it
\* returns given what Command::output() returned.  An output is
\*   [spawned, error, success, stdout, stderr]:
\* spawned = FALSE is Err(error) of Command::output(); otherwise success is
\* output.status.success() and stdout, stderr are the captured bytes.

\* A faulty button_name: buttons counted from 0.
button_name_from_zero(button) ==
    CASE button = 0 -> "left" [] button = 1 -> "middle" [] button = 2 -> "right"
      [] OTHER -> "unknown"

button_name(button) ==
    CASE button = 1 -> "left"
      [] button = 2 -> "middle"
      [] button = 3 -> "right"
      [] OTHER -> "unknown"

\* The shape shared by the handlers: map_err on the launch, then the test of
\* output.status.success().
Shaped(output, text) ==
    IF ~output.spawned THEN launch_error(output.error)
    ELSE IF output.success THEN success(text)
    ELSE xdotool_error(output.stderr)

move_mouse_args(params) == <<"mousemove", to_string(params.x), to_string(params.y)>>
move_mouse(params, output) ==
    Shaped(output, "Mouse moved to (" \o to_string(params.x) \o ", "
                   \o to_string(params.y) \o ")")

click_args(params) == <<"click", to_string(params.button)>>
click(params, output) ==
    Shaped(output, "Clicked " \o button_name(params.button) \o " mouse button")

click_at_args(params) ==
    <<"mousemove", to_string(params.x), to_string(params.y),
      "click", to_string(params.button)>>
click_at(params, output) ==
    Shaped(output, "Clicked " \o button_name(params.button) \o " at ("
                   \o to_string(params.x) \o ", " \o to_string(params.y) \o ")")

type_text_args(params) == <<"type", "--delay", to_string(params.delay), params.text>>
type_text(params, output) == Shaped(output, "Typed: \"" \o params.text \o "\"")

key_press_args(params) == <<"key", params.key>>
key_press(params, output) == Shaped(output, "Pressed key: " \o params.key)

\* The arm of scroll's match that returns early: no button.
NoButton == ""

\* A faulty scroll_button: up and down exchanged.
scroll_button_swapped(direction) ==
    LET d == to_lowercase(direction)
    IN  CASE d = "up" -> "5" [] d = "down" -> "4" [] d = "left" -> "6" [] d = "right" -> "7"
          [] OTHER -> NoButton

\* A faulty scroll_button: an unknown direction scrolls up, as an unknown
\* search_type searches by default.
scroll_button_lenient(direction) ==
    LET d == to_lowercase(direction)
    IN  CASE d = "up" -> "4" [] d = "down" -> "5" [] d = "left" -> "6" [] d = "right" -> "7"
          [] OTHER -> "4"

\* The match of scroll on direction.to_lowercase().
scroll_button(direction) ==
    LET d == to_lowercase(direction)
    IN  CASE d = "up" -> "4"
          [] d = "down" -> "5"
          [] d = "left" -> "6"
          [] d = "right" -> "7"
          [] OTHER -> NoButton

\* A faulty scroll_invalid: the arm panics instead of returning.
scroll_invalid_panic == [tag |-> "Panic", code |-> "", text |-> "Invalid direction"]

\* The early return of scroll, before any Command is built.
scroll_invalid == internal_error("Invalid direction. Use: up, down, left, right")

scroll_args(params) ==
    <<"click", "--repeat", to_string(params.clicks), scroll_button(params.direction)>>
scroll(params, output) ==
    Shaped(output, "Scrolled " \o params.direction \o " " \o to_string(params.clicks)
                   \o " clicks")

\* The loop of get_mouse_position and get_window_geometry over stdout.lines():
\* the first prefix of keys (in the order of the if / else-if chain) that the
\* line starts with sets its field.
KeyOf(line, keys) ==
    LET hits == {i \in 1..Len(keys) : starts_with(line, keys[i] \o "=")}
    IN  IF hits = {} THEN ""
        ELSE keys[CHOOSE i \in hits : \A j \in hits : i <= j]

\* A faulty SetField: a value that does not parse leaves the field as it was.
SetField_keep_on_error(fields, line, keys) ==
    LET k == KeyOf(line, keys)
        r == parse_i32(SliceFrom(line, Len(k) + 1))
    IN  IF k = "" \/ ~r.ok THEN fields ELSE [fields EXCEPT ![k] = r.v]

\* One iteration: x = line[2..].parse().unwrap_or(0), and so on.
SetField(fields, line, keys) ==
    LET k == KeyOf(line, keys)
    IN  IF k = "" THEN fields
        ELSE [fields EXCEPT ![k] = unwrap_or(parse_i32(SliceFrom(line, Len(k) + 1)), 0)]

RECURSIVE ParseFields(_, _, _)
ParseFields(ls, keys, fields) ==
    IF Len(ls) = 0 THEN fields
    ELSE ParseFields(Tail(ls), keys, SetField(fields, Head(ls), keys))

\* let mut x = 0; let mut y = 0; ...
ZeroFields(keys) == [k \in {keys[i] : i \in 1..Len(keys)} |-> 0]

ParseKeyValues(stdout, keys) ==
    ParseFields(lines(from_utf8_lossy(stdout)), keys, ZeroFields(keys))

MouseKeys == <<"X", "Y">>
get_mouse_position_args == <<"getmouselocation", "--shell">>
get_mouse_position(output) ==
    LET f == ParseKeyValues(output.stdout, MouseKeys)
    IN  Shaped(output, "Mouse position: (" \o to_string(f["X"]) \o ", "
                       \o to_string(f["Y"]) \o ")")

double_click_args == <<"click", "--repeat", "2", "1">>
double_click(output) == Shaped(output, "Double-clicked")

\* The match of search_window on search_type.to_lowercase(): the flag pushed
\* after "search", if any.
search_flag(search_type) ==
    LET t == to_lowercase(search_type)
    IN  CASE t = "name" -> <<"--name">>
          [] t = "class" -> <<"--class">>
          [] t = "classname" -> <<"--classname">>
          [] OTHER -> << >>

search_window_args(params) == <<"search">> \o search_flag(params.search_type) \o <<params.query>>

no_windows(query) == success("No windows found matching '" \o query \o "'")

\* A faulty search_window: a non-zero exit is an error, as in the other tools.
search_window_strict(params, output) ==
    IF ~output.spawned THEN launch_error(output.error)
    ELSE IF output.success
    THEN LET stdout == from_utf8_lossy(output.stdout)
             window_ids == lines(stdout)
         IN  IF Len(window_ids) = 0 THEN no_windows(params.query)
             ELSE success("Found " \o to_string(Len(window_ids)) \o " window(s):\n"
                          \o trim(stdout))
    ELSE xdotool_error(output.stderr)

search_window(params, output) ==
    IF ~output.spawned THEN launch_error(output.error)
    ELSE IF output.success
    THEN LET stdout == from_utf8_lossy(output.stdout)
             window_ids == lines(stdout)
         IN  IF Len(window_ids) = 0 THEN no_windows(params.query)
             ELSE success("Found " \o to_string(Len(window_ids)) \o " window(s):\n"
                          \o trim(stdout))
    ELSE no_windows(params.query)

get_active_window_args == <<"getactivewindow">>
get_active_window(output) ==
    Shaped(output, "Active window ID: " \o trim(from_utf8_lossy(output.stdout)))

GeometryKeys == <<"X", "Y", "WIDTH", "HEIGHT", "SCREEN">>
get_window_geometry_args(params) == <<"getwindowgeometry", "--shell", params.window_id>>
get_window_geometry(params, output) ==
    LET f == ParseKeyValues(output.stdout, GeometryKeys)
    IN  Shaped(output, "Window " \o params.window_id \o " geometry:\n  Position: ("
                       \o to_string(f["X"]) \o ", " \o to_string(f["Y"])
                       \o ")\n  Size: " \o to_string(f["WIDTH"]) \o "x"
                       \o to_string(f["HEIGHT"]) \o "\n  Screen: " \o to_string(f["SCREEN"]))

get_window_name_args(params) == <<"getwindowname", params.window_id>>
get_window_name(params, output) ==
    Shaped(output, "Window " \o params.window_id \o " title: "
                   \o trim(from_utf8_lossy(output.stdout)))

\* ------------------------------------------------------------ dispatch

\* The value a handler returns before building any Command, or NoResult.
EarlyReturn(op, params) ==
    IF op = "scroll" /\ scroll_button(params.direction) = NoButton
    THEN scroll_invalid ELSE NoResult

\* The argument vector of the handler of op.
Args(op, params) ==
    CASE op = "move_mouse" -> move_mouse_args(params)
      [] op = "click" -> click_args(params)
      [] op = "click_at" -> click_at_args(params)
      [] op = "type_text" -> type_text_args(params)
      [] op = "key_press" -> key_press_args(params)
      [] op = "scroll" -> scroll_args(params)
      [] op = "get_mouse_position" -> get_mouse_position_args
      [] op = "double_click" -> double_click_args
      [] op = "search_window" -> search_window_args(params)
      [] op = "get_active_window" -> get_active_window_args
      [] op = "get_window_geometry" -> get_window_geometry_args(params)
      [] op = "get_window_name" -> get_window_name_args(params)

\* A faulty Commands: click_at as a mousemove, then a click.
Commands_two_step_click_at(op, params) ==
    IF op = "click_at"
    THEN << move_mouse_args(params), click_args(params) >>
    ELSE << Args(op, params) >>

\* The Command::output() calls one run of the handler of op makes, in order.
Commands(op, params) == << Args(op, params) >>

\* What the handler of op returns, given the output of its Command.
Returned(op, params, output) ==
    CASE op = "move_mouse" -> move_mouse(params, output)
      [] op = "click" -> click(params, output)
      [] op = "click_at" -> click_at(params, output)
      [] op = "type_text" -> type_text(params, output)
      [] op = "key_press" -> key_press(params, output)
      [] op = "scroll" -> scroll(params, output)
      [] op = "get_mouse_position" -> get_mouse_position(output)
      [] op = "double_click" -> double_click(output)
      [] op = "search_window" -> search_window(params, output)
      [] op = "get_active_window" -> get_active_window(output)
      [] op = "get_window_geometry" -> get_window_geometry(params, output)
      [] op = "get_window_name" -> get_window_name(params, output)

\* ------------------------------------------------------------ inputs

Req(op, args) == [op |-> op, args |-> args]
NoRequest == Req("", << >>)

\* Calls a client sends: every tool, with arguments at and around the edges
\* of each parameter type, with optional fields present and absent.
Requests ==
    {Req("move_mouse", [x |-> 100, y |-> 200]),
     Req("move_mouse", [x |-> -5, y |-> 0]),
     Req("move_mouse", [x |-> I32_MAX, y |-> I32_MIN]),
     Req("move_mouse", [x |-> 7])}
    \cup {Req("click", [button |-> b]) : b \in {-1, 0, 1, 2, 3, 4, U8_MAX, U8_MAX + 1}}
    \cup {Req("click", << >>)}
    \cup {Req("click_at", [x |-> 50, y |-> 60, button |-> b]) : b \in {0, 3, 9, U8_MAX + 45}}
    \cup {Req("click_at", [x |-> -1, y |-> 1080])}
    \cup {Req("type_text", [text |-> "hi"]),
          Req("type_text", [text |-> "a \"b\"", delay |-> 0]),
          Req("type_text", [text |-> "", delay |-> I32_MAX]),
          Req("type_text", [text |-> "hi", delay |-> -1])}
    \cup {Req("key_press", [key |-> k]) : k \in {"Return", "ctrl+shift+t", ""}}
    \cup {Req("scroll", [direction |-> d]) :
            d \in {"up", "UP", "Down", "lEFT", "right", "RIGHT",
                   "", "u", "upward", " up", "diagonal", "4"}}
    \cup {Req("scroll", [direction |-> d, clicks |-> n]) :
            d \in {"up", "dOwN", "Left", "sideways"}, n \in {-1, 0, 1, 10, I32_MAX}}
    \cup {Req("scroll", [clicks |-> 2])}
    \cup {Req(op, << >>) : op \in {"get_mouse_position", "double_click", "get_active_window"}}
    \cup {Req("search_window", [query |-> "Firefox", search_type |-> t]) :
            t \in {"name", "Class", "CLASSNAME", "any", "title", ""}}
    \cup {Req("search_window", [query |-> q]) : q \in {"Firefox", "", "it's"}}
    \cup {Req(op, [window_id |-> w]) :
            op \in {"get_window_geometry", "get_window_name"},
            w \in {"12345", "", "1 2"}}

\* Lines the utility may print.
LineSet ==
    {Raw("X=10"), Raw("Y=-7"), Raw("X=abc"), Raw("x=5"), Raw("WIDTH=640"),
     Raw("123"), Raw("")}

\* Every stdout of at most n lines of LineSet, each ended by "\n".
RECURSIVE StdoutsUpTo(_)
StdoutsUpTo(n) ==
    IF n = 0 THEN {<< >>}
    ELSE LET shorter == StdoutsUpTo(n - 1)
         IN  shorter \cup {s \o l \o <<"\n">> : s \in shorter, l \in LineSet}

\* Further stdouts: the utility's usual output, values at the edges of i32,
\* other line endings, surrounding white space, an invalid byte.
ExtraStdouts ==
    {Raw("X=10\nY=20\nSCREEN=0\nWINDOW=123\n"),
     Raw("WINDOW=9\nX=1\nY=2\nWIDTH=3\nHEIGHT=4\nSCREEN=5\n"),
     Raw("X=2147483647\nY=-2147483648\nWIDTH=2147483648\nHEIGHT=-2147483649\n"),
     Raw("X=+5\nY= 6\nWIDTH=\nHEIGHT=7 \nSCREEN=-\n"),
     Raw("X=1\r\nY=2\r\n"),
     Raw("X=3\nX=4\nY=5\nY=oops\n"),
     Raw("XY=1\nHEIGHT=08\nSCREEN=1.5\n"),
     Raw("12\n34\n56"),
     Raw("  77 \n"),
     Raw("My Window \n"),
     Raw("X=1") \o <<InvalidByte>> \o Raw("\nY=2\n"),
     Raw("88\n") \o <<InvalidByte>> \o Raw("\n")}

Stdouts == StdoutsUpTo(MaxLines) \cup ExtraStdouts

Stderrs ==
    {<< >>, Raw("Can't open display: (null)\n"),
     Raw(" bad \n") \o <<InvalidByte>> \o Raw("key\n\n")}

\* Err(e) of Command::output(): the utility could not be started.
SpawnErr(e) ==
    [spawned |-> FALSE, error |-> e, success |-> FALSE, stdout |-> << >>, stderr |-> << >>]

\* Ok(Output {status, stdout, stderr}) of Command::output().
Exited(ok, stdout, stderr) ==
    [spawned |-> TRUE, error |-> "", success |-> ok, stdout |-> stdout, stderr |-> stderr]

NoOutput == SpawnErr("")

SpawnErrs ==
    {SpawnErr("No such file or directory (os error 2)"),
     SpawnErr("Permission denied (os error 13)")}

\* What Command::output() may return: the utility is a black box.
Outcomes ==
    SpawnErrs
    \cup {Exited(TRUE, s, << >>) : s \in Stdouts}
    \cup {Exited(TRUE, Raw("X=1\nY=2\n"), Raw("warning\n"))}
    \cup {Exited(FALSE, s, e) : s \in {<< >>, Raw("123\n")}, e \in Stderrs}

\* The smaller sets of the concurrent specification.
ConcRequests ==
    {Req("move_mouse", [x |-> 100, y |-> 200]),
     Req("click", << >>),
     Req("click_at", [x |-> 50, y |-> 60, button |-> 3]),
     Req("type_text", [text |-> "hi"]),
     Req("key_press", [key |-> "Return"]),
     Req("scroll", [direction |-> "UP"]),
     Req("scroll", [direction |-> "diagonal"]),
     Req("get_mouse_position", << >>),
     Req("double_click", << >>),
     Req("search_window", [query |-> "Firefox"]),
     Req("get_active_window", << >>),
     Req("get_window_geometry", [window_id |-> "12345"]),
     Req("get_window_name", [window_id |-> "12345"])}

\* Every tool's utility may fail to start or exit non-zero; that of three of
\* them may also exit with status 0.
ConcOutcomes(op) ==
    {SpawnErr("No such file or directory (os error 2)"),
     Exited(FALSE, << >>, Raw("Can't open display: (null)\n"))}
    \cup (IF op \in {"move_mouse", "get_mouse_position", "search_window"}
          THEN {Exited(TRUE, Raw("X=10\nY=20\n"), << >>)} ELSE {})

\* ------------------------------------------------------------ state

VARIABLES
    server,     \* the XdotoolServer: its tool_router
    pc,         \* per call slot: "idle", "running", "returned", "done"
    req,        \* per call slot: the call as received
    params,     \* per call slot: the handler's params
    launched,   \* per call slot: the argument vectors passed to Command::output()
    output,     \* per call slot: what Command::output() returned
    result      \* per call slot: what the handler returned

vars == <<server, pc, req, params, launched, output, result>>

Calls == 1..MaxCalls

\* XdotoolServer::new().
new == [tool_router |-> Tools]

Init ==
    /\ server = new
    /\ pc = [c \in Calls |-> "idle"]
    /\ req = [c \in Calls |-> NoRequest]
    /\ params = [c \in Calls |-> NoParams]
    /\ launched = [c \in Calls |-> << >>]
    /\ output = [c \in Calls |-> NoOutput]
    /\ result = [c \in Calls |-> NoResult]

\* The tool router receives a call of reqs, gives it the lowest free slot and
\* runs its handler up to the point where the handler blocks in
\* Command::output(), or returns early.
Call(c, reqs) ==
    /\ pc[c] = "idle"
    /\ \A d \in Calls : d < c => pc[d] # "idle"
    /\ \E r \in reqs :
        /\ r.op \in server.tool_router
        /\ req' = [req EXCEPT ![c] = r]
        /\ LET d == Deserialize(r.op, r.args)
           IN  IF ~d.ok
               THEN /\ result' = [result EXCEPT ![c] =
                                    invalid_params("failed to deserialize parameters")]
                    /\ pc' = [pc EXCEPT ![c] = "done"]
                    /\ UNCHANGED <<params, launched>>
               ELSE /\ params' = [params EXCEPT ![c] = d.v]
                    /\ IF EarlyReturn(r.op, d.v) # NoResult
                       THEN /\ result' = [result EXCEPT ![c] = EarlyReturn(r.op, d.v)]
                            /\ pc' = [pc EXCEPT ![c] = "done"]
                            /\ UNCHANGED launched
                       ELSE /\ launched' = [launched EXCEPT ![c] = @ \o Commands(r.op, d.v)]
                            /\ pc' = [pc EXCEPT ![c] = "running"]
                            /\ UNCHANGED result
    /\ UNCHANGED <<server, output>>

\* A client that sends its next call only after the answer to the last.
CallAlone(c) ==
    /\ \A d \in Calls : pc[d] = "idle"
    /\ Call(c, Requests)

\* A client that sends calls without waiting.
CallConcurrent(c) == Call(c, ConcRequests)

\* Command::output() returns to the handler of call c: the launch failed, or
\* the utility ran and exited.
CommandOutput(c, outs) ==
    /\ pc[c] = "running"
    /\ \E o \in outs : output' = [output EXCEPT ![c] = o]
    /\ pc' = [pc EXCEPT ![c] = "returned"]
    /\ UNCHANGED <<server, req, params, launched, result>>

\* A faulty OwnOutput: one buffer for the outputs of all calls.
OwnOutput_shared(c) == output[CHOOSE d \in Calls : pc[d] \in {"returned", "done"}]

\* The output the handler of call c holds: that of its own Command.
OwnOutput(c) == output[c]

\* The handler of call c shapes its result and returns.
Complete(c) ==
    /\ pc[c] = "returned"
    /\ result' = [result EXCEPT ![c] = Returned(req[c].op, params[c], OwnOutput(c))]
    /\ pc' = [pc EXCEPT ![c] = "done"]
    /\ UNCHANGED <<server, req, params, launched, output>>

\* The transport sends the result; nothing of the call is kept.
Respond(c) ==
    /\ pc[c] = "done"
    /\ pc' = [pc EXCEPT ![c] = "idle"]
    /\ req' = [req EXCEPT ![c] = NoRequest]
    /\ params' = [params EXCEPT ![c] = NoParams]
    /\ launched' = [launched EXCEPT ![c] = << >>]
    /\ output' = [output EXCEPT ![c] = NoOutput]
    /\ result' = [result EXCEPT ![c] = NoResult]
    /\ UNCHANGED server

Next ==
    \E c \in Calls :
        \/ CallAlone(c)
        \/ CommandOutput(c, Outcomes)
        \/ Complete(c)
        \/ Respond(c)

\* Calls one at a time, over the full input sets.
Spec == Init /\ [][Next]_vars

NextConc ==
    \E c \in Calls :
        \/ CallConcurrent(c)
        \/ CommandOutput(c, ConcOutcomes(req[c].op))
        \/ Complete(c)
        \/ Respond(c)

\* Up to MaxCalls calls in flight at once, over the smaller input sets.
SpecConc == Init /\ [][NextConc]_vars

\* ------------------------------------------------------------ properties
\* Vocabulary of the properties below, stated on the call as received and on
\* what Command::output() returned, not on the handlers' definitions.

Op(c) == req[c].op
Supplied(c, f) == f \in DOMAIN req[c].args
Arg(c, f) == req[c].args[f]
Finished(c) == pc[c] = "done"

\* Command::output() was called and returned Err: the utility did not start.
LaunchFailed(c) ==
    pc[c] \in {"returned", "done"} /\ launched[c] # << >> /\ ~output[c].spawned

\* The utility started and exited; ok says whether with status 0.
ExitedWith(c, ok) ==
    pc[c] \in {"returned", "done"} /\ output[c].spawned /\ output[c].success = ok

ValidDirections == {"up", "down", "left", "right"}

\* The integer fields of each tool with the range of their types, and the
\* fields each tool requires.
IntFields(op) ==
    CASE op \in {"move_mouse"} -> {<<"x", I32_MIN, I32_MAX>>, <<"y", I32_MIN, I32_MAX>>}
      [] op = "click" -> {<<"button", 0, U8_MAX>>}
      [] op = "click_at" ->
           {<<"x", I32_MIN, I32_MAX>>, <<"y", I32_MIN, I32_MAX>>, <<"button", 0, U8_MAX>>}
      [] op = "type_text" -> {<<"delay", 0, I32_MAX>>}
      [] op = "scroll" -> {<<"clicks", 0, I32_MAX>>}
      [] OTHER -> {}

RequiredFields(op) ==
    CASE op \in {"move_mouse", "click_at"} -> {"x", "y"}
      [] op = "type_text" -> {"text"}
      [] op = "key_press" -> {"key"}
      [] op = "scroll" -> {"direction"}
      [] op = "search_window" -> {"query"}
      [] op \in {"get_window_geometry", "get_window_name"} -> {"window_id"}
      [] OTHER -> {}

\* The call's arguments have the types of the tool's parameter struct.
WellTyped(c) ==
    /\ \A f \in RequiredFields(Op(c)) : Supplied(c, f)
    /\ \A t \in IntFields(Op(c)) :
          Supplied(c, t[1]) => (Arg(c, t[1]) >= t[2] /\ Arg(c, t[1]) <= t[3])

\* The call passes validation: well typed, and a scroll names a direction.
PassesValidation(c) ==
    /\ WellTyped(c)
    /\ Op(c) = "scroll" => to_lowercase(Arg(c, "direction")) \in ValidDirections

\* text contains sub as a contiguous part.
Contains(text, sub) ==
    \E i \in 1..(Len(text) - Len(sub) + 1) : SubSeq(text, i, i + Len(sub) - 1) = sub

\* The characters of a byte stream none of whose bytes is invalid.
RECURSIVE Text(_)
Text(bytes) == IF Len(bytes) = 0 THEN "" ELSE Head(bytes) \o Text(Tail(bytes))

ValidUtf8(bytes) == \A i \in 1..Len(bytes) : bytes[i] # InvalidByte

\* C1: every call that passes validation launches the utility exactly once,
\* at no point of its handling has it launched it twice (no retry after a
\* launch failure or a non-zero exit), a call that fails validation launches
\* nothing, and click_at is one invocation carrying mousemove and click.
C1_ExactlyOneLaunch ==
    \A c \in Calls : pc[c] # "idle" =>
        /\ Len(launched[c]) <= 1
        /\ PassesValidation(c) => Len(launched[c]) = 1
        /\ ~PassesValidation(c) => Len(launched[c]) = 0
        /\ (Op(c) = "click_at" /\ PassesValidation(c)) =>
              /\ Len(launched[c][1]) = 5
              /\ launched[c][1][1] = "mousemove"
              /\ launched[c][1][4] = "click"

\* A click_at whose launch failed has finished with one launch, not two.
C1_Witness ==
    \E c \in Calls :
        /\ Finished(c) /\ Op(c) = "click_at" /\ LaunchFailed(c)
        /\ Len(launched[c]) = 1

\* C2: a scroll whose direction is, in lower case, none of up, down, left,
\* right ends in a failure and never launches the utility, whatever clicks.
C2_InvalidDirectionNoLaunch ==
    \A c \in Calls :
        (Op(c) = "scroll" /\ Supplied(c, "direction")
         /\ to_lowercase(Arg(c, "direction")) \notin ValidDirections) =>
            /\ launched[c] = << >>
            /\ pc[c] = "done"
            /\ result[c].tag = "Err"

\* A scroll "sideways" with clicks given has finished with the failure of the
\* direction check.
C2_Witness ==
    \E c \in Calls :
        /\ Finished(c) /\ Op(c) = "scroll"
        /\ Supplied(c, "direction") /\ Arg(c, "direction") = "sideways"
        /\ Supplied(c, "clicks") /\ Arg(c, "clicks") = 10
        /\ result[c].text = "Invalid direction. Use: up, down, left, right"
        /\ launched[c] = << >>

\* C3: a finished call holds a value the handler returned, Ok or Err, never a
\* fault; a validation failure and a non-zero exit (search_window apart) are
\* an Err with a message.
C3_FailuresAreReturned ==
    \A c \in Calls : Finished(c) =>
        /\ result[c].tag \in {"Ok", "Err"}
        /\ ~PassesValidation(c) => (result[c].tag = "Err" /\ result[c].text # "")
        /\ (ExitedWith(c, FALSE) /\ Op(c) # "search_window") =>
              (result[c].tag = "Err" /\ result[c].text # "")

\* A get_window_name whose utility exited non-zero has finished with an Err.
C3_Witness ==
    \E c \in Calls :
        /\ Finished(c) /\ Op(c) = "get_window_name" /\ ExitedWith(c, FALSE)
        /\ result[c].tag = "Err"

\* Window ids the utility prints, and what it prints for a list of them.
WindowIds == {"123", "12", "34", "56"}
IdLists == UNION {[1..n -> WindowIds] : n \in 0..(MaxLines + 1)}

RECURSIVE JoinLines(_)
JoinLines(ids) ==
    IF Len(ids) = 0 THEN ""
    ELSE IF Len(ids) = 1 THEN ids[1]
    ELSE ids[1] \o "\n" \o JoinLines(Tail(ids))

\* The stdout of N id lines: each ended by "\n", the last one perhaps not.
Printed(ids) ==
    IF Len(ids) = 0 THEN {<< >>}
    ELSE {Raw(JoinLines(ids) \o "\n"), Raw(JoinLines(ids))}

\* C4: search_window, once the utility was launched, answers a non-zero exit
\* with the success "No windows found"; and an exit 0 that printed N window-id
\* lines with a success that reports N and lists exactly those N lines.
C4_SearchWindow ==
    \A c \in Calls : (Finished(c) /\ Op(c) = "search_window" /\ output[c].spawned) =>
        /\ ExitedWith(c, FALSE) =>
              result[c] = [tag |-> "Ok", code |-> "",
                           text |-> "No windows found matching '" \o Arg(c, "query") \o "'"]
        /\ ExitedWith(c, TRUE) =>
              \A ids \in IdLists : output[c].stdout \in Printed(ids) =>
                  /\ result[c].tag = "Ok"
                  /\ result[c].text =
                        (IF Len(ids) = 0
                         THEN "No windows found matching '" \o Arg(c, "query") \o "'"
                         ELSE "Found " \o to_string(Len(ids)) \o " window(s):\n"
                              \o JoinLines(ids))

\* A search that printed two ids has finished with "Found 2 window(s)".
C4_Witness ==
    \E c \in Calls :
        /\ Finished(c) /\ Op(c) = "search_window" /\ ExitedWith(c, TRUE)
        /\ output[c].stdout = Raw("123\n123\n")
        /\ result[c].text = "Found 2 window(s):\n123\n123"

\* C5: but for search_window, a non-zero exit is a failure whose message
\* contains the standard-error text as the utility wrote it (decoded as UTF-8,
\* nothing trimmed or cut); only search_window answers it with a success.
C5_NonZeroExitIsFailure ==
    \A c \in Calls : (Finished(c) /\ ExitedWith(c, FALSE)) =>
        /\ Op(c) # "search_window" =>
              /\ result[c].tag = "Err"
              /\ Contains(result[c].text, from_utf8_lossy(output[c].stderr))
              /\ ValidUtf8(output[c].stderr) =>
                    Contains(result[c].text, Text(output[c].stderr))
        /\ result[c].tag = "Ok" => Op(c) = "search_window"

\* A key_press whose utility exited non-zero with a message around which
\* there is white space has finished.
C5_Witness ==
    \E c \in Calls :
        /\ Finished(c) /\ Op(c) = "key_press" /\ ExitedWith(c, FALSE)
        /\ output[c].stderr = Raw("Can't open display: (null)\n")
        /\ result[c].text = "xdotool error: Can't open display: (null)\n"

LaunchPrefix == "Failed to run xdotool: "
ExitPrefix == "xdotool error: "

\* C6 as claimed: a launch failure is a failure, not retried, whose kind
\* differs from the kind of the failure of a non-zero exit.
C6_LaunchKindDistinct ==
    \A c, d \in Calls :
        (Finished(c) /\ LaunchFailed(c)
         /\ Finished(d) /\ ExitedWith(d, FALSE) /\ result[d].tag = "Err") =>
            /\ result[c].tag = "Err"
            /\ Len(launched[c]) = 1
            /\ result[c].code # result[d].code

\* C6 amended: a launch failure of any tool, search_window included, is an
\* internal_error "Failed to run xdotool: <cause>" and is not retried; the
\* failure of a non-zero exit is an internal_error too, so the two have the
\* same kind and differ by the start of their messages only.
C6_LaunchFailureSameKind ==
    /\ \A c \in Calls : LaunchFailed(c) =>
          /\ Len(launched[c]) = 1
          /\ Finished(c) =>
                result[c] = [tag |-> "Err", code |-> "internal_error",
                             text |-> LaunchPrefix \o output[c].error]
    /\ \A c, d \in Calls :
          (Finished(c) /\ LaunchFailed(c)
           /\ Finished(d) /\ ExitedWith(d, FALSE) /\ result[d].tag = "Err") =>
              /\ result[c].code = result[d].code
              /\ starts_with(result[d].text, ExitPrefix)
              /\ ~starts_with(result[d].text, LaunchPrefix)
              /\ ~starts_with(result[c].text, ExitPrefix)

\* A search_window whose launch failed and a move_mouse whose utility exited
\* non-zero have both finished.
C6_Witness ==
    \E c, d \in Calls :
        /\ Finished(c) /\ Op(c) = "search_window" /\ LaunchFailed(c)
        /\ Finished(d) /\ Op(d) = "move_mouse" /\ ExitedWith(d, FALSE)
        /\ result[c].tag = "Err" /\ result[d].tag = "Err"

\* The wheel button of a direction, as the tool's description gives it.
Wheel(d) ==
    CASE d = "up" -> "4" [] d = "down" -> "5" [] d = "left" -> "6" [] d = "right" -> "7"

NamesDirection(c) ==
    /\ Op(c) = "scroll" /\ Supplied(c, "direction")
    /\ to_lowercase(Arg(c, "direction")) \in ValidDirections

Clicks(c) == IF Supplied(c, "clicks") THEN Arg(c, "clicks") ELSE 3

\* What C7 says of a scroll call: its invocation and, on exit 0, its text.
ScrollsAsSaid(c) ==
    /\ launched[c] =
          << <<"click", "--repeat", to_string(Clicks(c)),
               Wheel(to_lowercase(Arg(c, "direction")))>> >>
    /\ (Finished(c) /\ ExitedWith(c, TRUE)) =>
          result[c] = [tag |-> "Ok", code |-> "",
                       text |-> "Scrolled " \o Arg(c, "direction") \o " "
                                \o to_string(Clicks(c)) \o " clicks"]

NameOfButton(b) ==
    IF b = 1 THEN "left" ELSE IF b = 2 THEN "middle" ELSE IF b = 3 THEN "right"
    ELSE "unknown"

Button(c) == IF Supplied(c, "button") THEN Arg(c, "button") ELSE 1

IsClick(c) == Op(c) \in {"click", "click_at"} /\ pc[c] # "idle"

\* What C8 says of a click or click_at call: the button is the last argument
\* of the one invocation, and the call is never a validation error.
ClicksAsSaid(c) ==
    /\ Len(launched[c]) = 1
    /\ launched[c][1][Len(launched[c][1])] = to_string(Button(c))
    /\ Finished(c) => result[c].code # "invalid_params"
    /\ (Finished(c) /\ ExitedWith(c, TRUE)) =>
          result[c].text =
             (IF Op(c) = "click"
              THEN "Clicked " \o NameOfButton(Button(c)) \o " mouse button"
              ELSE "Clicked " \o NameOfButton(Button(c)) \o " at ("
                   \o to_string(Arg(c, "x")) \o ", " \o to_string(Arg(c, "y")) \o ")")

\* C8 as claimed: whatever number the caller gives as the button, click and
\* click_at forward it and never reject it.
C8_AnyButtonForwarded ==
    \A c \in Calls : IsClick(c) => ClicksAsSaid(c)

\* C8 amended: button_name maps 1, 2, 3 to left, middle, right and every
\* other value of u8 to unknown; a button in 0..255, or an omitted one (1), is
\* forwarded and never rejected; a button outside 0..255 is rejected before
\* the handler runs and nothing is launched.
C8_U8ButtonForwarded ==
    /\ \A b \in 0..U8_MAX : button_name(b) = NameOfButton(b)
    /\ \A c \in Calls : IsClick(c) =>
          IF Button(c) \in 0..U8_MAX
          THEN ClicksAsSaid(c)
          ELSE /\ launched[c] = << >>
               /\ Finished(c)
               /\ result[c].tag = "Err"

\* A click_at with button 9 has finished with success, the button unknown.
C8_Witness ==
    \E c \in Calls :
        /\ Finished(c) /\ Op(c) = "click_at" /\ Supplied(c, "button") /\ Arg(c, "button") = 9
        /\ launched[c] = << <<"mousemove", "50", "60", "click", "9">> >>
        /\ result[c].text = "Clicked unknown at (50, 60)"

\* Decimal integers as text, for the properties of the parsed fields.
DigitChars == {"0", "1", "2", "3", "4", "5", "6", "7", "8", "9"}

AllDigits(s) == Len(s) > 0 /\ \A i \in 1..Len(s) : SubSeq(s, i, i) \in DigitChars

Signed(s) == Len(s) > 0 /\ SubSeq(s, 1, 1) \in {"+", "-"}
Unsigned(s) == IF Signed(s) THEN SubSeq(s, 2, Len(s)) ELSE s

\* s is an integer written in decimal, with or without a sign.
IsInteger(s) == AllDigits(Unsigned(s))

RECURSIVE StripZeros(_)
StripZeros(s) ==
    IF Len(s) > 1 /\ SubSeq(s, 1, 1) = "0" THEN StripZeros(SubSeq(s, 2, Len(s))) ELSE s

Magnitude(s) == StripZeros(Unsigned(s))

\* The integer s denotes, printed in decimal.
Numeral(s) ==
    IF Signed(s) /\ SubSeq(s, 1, 1) = "-" /\ Magnitude(s) # "0"
    THEN "-" \o Magnitude(s) ELSE Magnitude(s)

\* a <= b for two digit strings of one length.
RECURSIVE DigitsLeq(_, _)
DigitsLeq(a, b) ==
    IF Len(a) = 0 THEN TRUE
    ELSE LET x == SubSeq(a, 1, 1)  y == SubSeq(b, 1, 1)
         IN  IF x = y THEN DigitsLeq(SubSeq(a, 2, Len(a)), SubSeq(b, 2, Len(b)))
             ELSE \E i, j \in 1..10 :
                     /\ SubSeq("0123456789", i, i) = x
                     /\ SubSeq("0123456789", j, j) = y
                     /\ i < j

\* The integer s denotes lies in -2147483648..2147483647.
InI32(s) ==
    LET m == Magnitude(s)
        limit == IF Numeral(s) = "-" \o m THEN "2147483648" ELSE "2147483647"
    IN  Len(m) < 10 \/ (Len(m) = 10 /\ DigitsLeq(m, limit))

\* The value reported for key: that of the last line of stdout that starts
\* with "key=", "0" when there is none or when accepts refuses what follows
\* the prefix.
Reported(stdout, key, accepts(_)) ==
    LET ls == lines(from_utf8_lossy(stdout))
        at == {i \in 1..Len(ls) : starts_with(ls[i], key \o "=")}
    IN  IF at = {} THEN "0"
        ELSE LET last == CHOOSE i \in at : \A j \in at : j <= i
                 rest == SubSeq(ls[last], Len(key) + 2, Len(ls[last]))
             IN  IF accepts(rest) THEN Numeral(rest) ELSE "0"

\* The success text of the two parsing tools for the values accepts admits.
PositionText(stdout, accepts(_)) ==
    "Mouse position: (" \o Reported(stdout, "X", accepts) \o ", "
    \o Reported(stdout, "Y", accepts) \o ")"

GeometryText(id, stdout, accepts(_)) ==
    "Window " \o id \o " geometry:\n  Position: (" \o Reported(stdout, "X", accepts)
    \o ", " \o Reported(stdout, "Y", accepts) \o ")\n  Size: "
    \o Reported(stdout, "WIDTH", accepts) \o "x" \o Reported(stdout, "HEIGHT", accepts)
    \o "\n  Screen: " \o Reported(stdout, "SCREEN", accepts)

ParsesAs(c, accepts(_)) ==
    /\ (Op(c) = "get_mouse_position" /\ Finished(c) /\ ExitedWith(c, TRUE)) =>
          result[c] = [tag |-> "Ok", code |-> "",
                       text |-> PositionText(output[c].stdout, accepts)]
    /\ (Op(c) = "get_window_geometry" /\ Finished(c) /\ ExitedWith(c, TRUE)) =>
          result[c] = [tag |-> "Ok", code |-> "",
                       text |-> GeometryText(Arg(c, "window_id"), output[c].stdout, accepts)]

I32Integer(s) == IsInteger(s) /\ InI32(s)

\* C9 as claimed: on exit 0 the two parsing tools succeed for any stdout and
\* report, for each of their keys, the integer after the prefix, and 0 for a
\* key that is missing or followed by something that is not an integer.
C9_FieldsAreTheIntegers ==
    \A c \in Calls : ParsesAs(c, IsInteger)

\* C9 amended: the integer after the prefix when it lies in the range of a
\* 32-bit signed integer; a key that is missing, or followed by something that
\* is not an integer of that range, is reported as 0.
C9_FieldsAreTheI32Integers ==
    \A c \in Calls : ParsesAs(c, I32Integer)

\* A get_window_geometry whose stdout repeats a key, the last time with
\* something that is no integer, has finished.
C9_Witness ==
    \E c \in Calls :
        /\ Finished(c) /\ Op(c) = "get_window_geometry" /\ ExitedWith(c, TRUE)
        /\ output[c].stdout = Raw("X=3\nX=4\nY=5\nY=oops\n")
        /\ Arg(c, "window_id") = "12345"
        /\ result[c].text =
              "Window 12345 geometry:\n  Position: (4, 0)\n  Size: 0x0\n  Screen: 0"

\* Everything the model holds of call c.
Slot(c) == <<pc[c], req[c], params[c], launched[c], output[c], result[c]>>

\* What the handler of a call of r passes to the utility, and what it returns
\* on output o, when no other call is in flight.
ArgsAlone(r) == Commands(r.op, Deserialize(r.op, r.args).v)
ResultAlone(r, o) == Returned(r.op, Deserialize(r.op, r.args).v, o)

\* The invocation and the result of each call are those of its own
\* parameters and of the output of its own subprocess.
C10_OwnInputsOnly ==
    \A c \in Calls :
        /\ pc[c] \in {"running", "returned"} => launched[c] = ArgsAlone(req[c])
        /\ (Finished(c) /\ launched[c] # << >>) =>
              /\ launched[c] = ArgsAlone(req[c])
              /\ result[c] = ResultAlone(req[c], output[c])

\* A step of one call leaves every other call, and the server, as they were.
C10_Frame ==
    /\ server' = server
    /\ Cardinality({c \in Calls : Slot(c)' # Slot(c)}) <= 1

\* C10: with several calls in flight, in any interleaving, each call's
\* invocation and result depend on that call's parameters and on its own
\* subprocess's output only, as if it were handled alone; no step of one call
\* changes the server or anything of another call.
C10_Stateless == []C10_OwnInputsOnly /\ [][C10_Frame]_vars

\* Two calls in flight at once have both finished, each with the result of
\* its own subprocess: a move_mouse that succeeded, a get_mouse_position whose
\* utility exited non-zero.
C10_Witness ==
    \E c, d \in Calls :
        /\ c # d /\ Finished(c) /\ Finished(d)
        /\ Op(c) = "move_mouse" /\ ExitedWith(c, TRUE)
        /\ result[c].text = "Mouse moved to (100, 200)"
        /\ Op(d) = "get_mouse_position" /\ ExitedWith(d, FALSE)
        /\ result[d].tag = "Err"

====
